---- MODULE Spec2Model ----
(***************************************************************************)
(* etl.py of songplays: the load of the song dataset and of the log        *)
(* dataset into the tables songs, artists, users, time and songplays.      *)
(*                                                                         *)
(* main() is a straight line: connect, process_data over data/song_data    *)
(* with process_song_file, process_data over data/log_data with            *)
(* process_log_file, close.  process_data discovers the files (os.walk +   *)
(* glob) and then, per file, calls the extractor and commits.              *)
(*                                                                         *)
(* The statements of sql_queries.py are not part of the sources at hand;   *)
(* their effect on the tables is modelled from the persisted state layout  *)
(* the specification gives (section 6).                                    *)
(***************************************************************************)
EXTENDS Integers, Sequences, FiniteSets, TLC

\* ------------------------------------------------------------------------
\* Bounds of the model
\* ------------------------------------------------------------------------
\* files of one dataset root (Spec)
MaxFiles == 2
\* records (lines) of the log files of one dataset root, taken together
MaxRecords == 2
\* directory entries below one dataset root (SpecDisc)
MaxEntries == 3

\* ------------------------------------------------------------------------
\* Values
\* ------------------------------------------------------------------------
\* Python's None / SQL NULL in a text column
None == "None"
\* NaN / NULL in a numeric column of a record that is no song play
NaN == -1

MsPerHour == 60 * 60 * 1000
MsPerDay == 24 * MsPerHour

\* Hours the local clock of the process is ahead of UTC: a process in UTC
\* and one east of it.
TZOffsets == {0, 1}

\* The song-metadata records the song files are drawn from.  The two songs
\* share artist_id AR1 under two artist names, so the artist upsert meets a
\* conflict; the same record may sit in two files, so the song insert does.
SongA ==
    [song_id |-> "S1", title |-> "Song A", artist_id |-> "AR1", year |-> 2000,
     duration |-> 180, artist_name |-> "Artist X", artist_location |-> "NYC",
     artist_latitude |-> 40, artist_longitude |-> -74]
SongB ==
    [song_id |-> "S2", title |-> "Song B", artist_id |-> "AR1", year |-> 0,
     duration |-> 200, artist_name |-> "Artist Y", artist_location |-> None,
     artist_latitude |-> NaN, artist_longitude |-> NaN]
SongRecords == {SongA, SongB}

\* The log events the log files are drawn from.  ts is in epoch
\* milliseconds; the instants lie in January 1970 so that they fit TLC's
\* integers: 1970-01-01 23:00:00 UTC and 1970-01-02 00:30:00 UTC.
PlayA ==
    [page |-> "NextSong", ts |-> 23 * MsPerHour, userId |-> 8,
     firstName |-> "Kaylee", lastName |-> "Summers", gender |-> "F",
     level |-> "free", song |-> "Song A", artist |-> "Artist X",
     length |-> 180, sessionId |-> 139, location |-> "Phoenix",
     userAgent |-> "Mozilla"]
PlayB ==
    [page |-> "NextSong", ts |-> 24 * MsPerHour + 30 * 60 * 1000, userId |-> 8,
     firstName |-> "Kaylee", lastName |-> "Summers", gender |-> "F",
     level |-> "paid", song |-> "Song A", artist |-> "Artist Y",
     length |-> 180, sessionId |-> 140, location |-> "Phoenix",
     userAgent |-> "Mozilla"]
HomeC ==
    [page |-> "Home", ts |-> 23 * MsPerHour, userId |-> 10,
     firstName |-> "Sylvie", lastName |-> "Cruz", gender |-> "F",
     level |-> "free", song |-> None, artist |-> None,
     length |-> NaN, sessionId |-> 9, location |-> "Washington",
     userAgent |-> "Safari"]
LogRecords == {PlayA, PlayB, HomeC}

\* sequences over S of length at most n
SeqsUpTo(S, n) == UNION {[1..k -> S] : k \in 0..n}

\* the documents a log file can hold
LogDocuments == SeqsUpTo(LogRecords, MaxRecords)
\* the documents a song file can hold: one record
SongDocuments == {<<r>> : r \in SongRecords}

\* ------------------------------------------------------------------------
\* A dataset root: the directory tree below it
\* ------------------------------------------------------------------------
\* A tree is a sequence of entries; entry j lies in directory parent (0 is
\* the root itself, otherwise an earlier entry that is a directory).  An
\* entry's name is known by its class; names of one class stand for
\* different names, but "*" is the one name made of a single asterisk.
NameClasses == {"x.json", ".x.json", "x.txt", "*"}
Kinds == {"file", "dir"}

IsHidden(name) == name = ".x.json"
EndsInJson(name) == name \in {"x.json", ".x.json"}

Entries(docs) ==
    [parent : 0..MaxEntries, kind : Kinds, name : NameClasses, doc : docs]

IsTree(t) ==
    /\ \A j \in 1..Len(t) :
        /\ t[j].parent < j
        /\ t[j].parent > 0 => t[t[j].parent].kind = "dir"
    /\ \A j, k \in 1..Len(t) :
        (j < k /\ t[j].parent = t[k].parent /\ t[j].name = "*") => t[k].name # "*"

\* every tree of at most MaxEntries entries, the files holding doc
Trees(doc) ==
    {t \in SeqsUpTo(Entries({doc}), MaxEntries) : IsTree(t)}

\* a root that holds only regular, visible .json files, one per document
FlatTree(docs) ==
    [j \in 1..Len(docs) |->
        [parent |-> 0, kind |-> "file", name |-> "x.json", doc |-> docs[j]]]

\* the entries of directory d, in listing order
Children(t, d) == {j \in 1..Len(t) : t[j].parent = d}

\* the members of a set of numbers, ascending
RECURSIVE Ascending(_)
Ascending(S) ==
    IF S = {} THEN <<>>
    ELSE LET m == CHOOSE x \in S : \A y \in S : x <= y
         IN <<m>> \o Ascending(S \ {m})

RECURSIVE Concat(_)
Concat(ss) == IF ss = <<>> THEN <<>> ELSE Head(ss) \o Concat(Tail(ss))

\* os.walk(folder_path): the directories of the tree, top-down, every
\* sub-directory entered whatever its name (a missing root yields nothing,
\* as an empty one yields only the root, which holds no entry).
RECURSIVE Walk(_, _)
Walk(t, d) ==
    LET subdirs == Ascending({j \in Children(t, d) : t[j].kind = "dir"})
    IN <<d>> \o Concat([k \in 1..Len(subdirs) |-> Walk(t, subdirs[k])])

\* The directories the pathname of directory d stands for when glob reads
\* it as a pattern: a component "*" matches every entry of the directory
\* above whose name does not start with a dot, any other component itself.
RECURSIVE GlobDirs(_, _)
GlobDirs(t, d) ==
    IF d = 0 THEN {0}
    ELSE LET above == GlobDirs(t, t[d].parent)
         IN IF t[d].name = "*"
            THEN {j \in 1..Len(t) : t[j].parent \in above /\ ~IsHidden(t[j].name)}
            ELSE {d}

\* glob.glob(os.path.join(root, "*.json")) for the walked directory d: the
\* entries of the matched directories whose name ends in .json and does not
\* start with a dot ("*" never matches a leading dot), whatever their kind.
Glob(t, d) ==
    LET dirs == Ascending(GlobDirs(t, d))
        hits(m) == Ascending({j \in Children(t, m) :
                        EndsInJson(t[j].name) /\ ~IsHidden(t[j].name)})
    IN Concat([k \in 1..Len(dirs) |-> hits(dirs[k])])

\* The file list of process_data: one glob per walked directory, appended
\* in walk order (abspath keeps one path per entry: a path is the entry's
\* index in the tree).
FilesFound(t) ==
    LET roots == Walk(t, 0)
    IN Concat([k \in 1..Len(roots) |-> Glob(t, roots[k])])

\* func gets past its first lines: pd.read_json(filepath, lines=True)
\* raises on what is no regular file, and a document without a line gives a
\* frame without columns, on which the first column access raises
Readable(t, f) == t[f].kind = "file" /\ t[f].doc # <<>>

\* ------------------------------------------------------------------------
\* The store behind the cursor: tables and statements
\* ------------------------------------------------------------------------
EmptyTables ==
    [songs |-> {}, artists |-> {}, users |-> {}, time |-> {}, songplays |-> <<>>]

\* insert into songs, song_id the key; a row with the same song_id is left
\* as it is (process_song_file's docstring calls the statement an upsert,
\* and a load over loaded files is meant to go through)
SongInsert(db, a) ==
    IF \E r \in db.songs : r.song_id = a[1] THEN db
    ELSE [db EXCEPT !.songs = @ \cup
            {[song_id |-> a[1], title |-> a[2], artist_id |-> a[3],
              year |-> a[4], duration |-> a[5]]}]

\* upsert into artists on artist_id: the later row replaces the earlier
ArtistUpsert(db, a) ==
    [db EXCEPT !.artists = {r \in @ : r.artist_id # a[1]} \cup
        {[artist_id |-> a[1], name |-> a[2], location |-> a[3],
          latitude |-> a[4], longitude |-> a[5]]}]

\* upsert into users on user_id: a conflict updates the level only
UserUpsert(db, a) ==
    IF \E r \in db.users : r.user_id = a[1]
    THEN [db EXCEPT !.users =
            {IF r.user_id = a[1] THEN [r EXCEPT !.level = a[5]] ELSE r : r \in @}]
    ELSE [db EXCEPT !.users = @ \cup
            {[user_id |-> a[1], first_name |-> a[2], last_name |-> a[3],
              gender |-> a[4], level |-> a[5]]}]

\* insert into time; a row with the same start_time is left as it is
TimeInsert(db, a) ==
    IF \E r \in db.time : r.start_time = a[1] THEN db
    ELSE [db EXCEPT !.time = @ \cup
            {[start_time |-> a[1], hour |-> a[2], day |-> a[3], week |-> a[4],
              month |-> a[5], year |-> a[6], weekday |-> a[7]]}]

\* insert into songplays: always a new row (the serial key is its position)
SongplayInsert(db, a) ==
    [db EXCEPT !.songplays = Append(@,
        [start_time |-> a[1], user_id |-> a[2], level |-> a[3],
         song_id |-> a[4], artist_id |-> a[5], session_id |-> a[6],
         location |-> a[7], user_agent |-> a[8]])]

\* song_select: the (song_id, artist_id) of every song joined to its artist
\* whose title, artist name and duration equal the three parameters
SongSelect(db, a) ==
    {<<s.song_id, r.artist_id>> : <<s, r>> \in
        {p \in db.songs \X db.artists :
            /\ p[1].artist_id = p[2].artist_id
            /\ p[1].title = a[1]
            /\ p[2].name = a[2]
            /\ p[1].duration = a[3]}}

\* cur.fetchone() after song_select: one of the rows found, in no stated
\* order, or nothing (the empty tuple stands for Python's None)
FetchOne(db, a) ==
    IF SongSelect(db, a) = {} THEN {<<>>} ELSE SongSelect(db, a)

\* cur.execute(stmt, args) on the tables of the open transaction
Execute(db, c) ==
    CASE c.stmt = "song_table_insert" -> SongInsert(db, c.args)
      [] c.stmt = "artist_table_insert" -> ArtistUpsert(db, c.args)
      [] c.stmt = "user_table_insert" -> UserUpsert(db, c.args)
      [] c.stmt = "time_table_insert" -> TimeInsert(db, c.args)
      [] c.stmt = "songplay_table_insert" -> SongplayInsert(db, c.args)
      [] c.stmt = "song_select" -> db

RECURSIVE ExecuteAll(_, _)
ExecuteAll(db, cs) ==
    IF cs = <<>> THEN db ELSE ExecuteAll(Execute(db, Head(cs)), Tail(cs))

Call(stmt, args) == [stmt |-> stmt, args |-> args]

\* ------------------------------------------------------------------------
\* The extractors
\* ------------------------------------------------------------------------
\* process_song_file as it would be with the artist upsert left out
process_song_file_NoArtist(doc) ==
    LET r == doc[1]
    IN << Call("song_table_insert",
               <<r.song_id, r.title, r.artist_id, r.year, r.duration>>) >>

\* process_song_file: the first record of the document gives one song
\* insert and then one artist upsert.
process_song_file(doc) ==
    LET r == doc[1]
    IN << Call("song_table_insert",
               <<r.song_id, r.title, r.artist_id, r.year, r.duration>>),
          Call("artist_table_insert",
               <<r.artist_id, r.artist_name, r.artist_location,
                 r.artist_latitude, r.artist_longitude>>) >>

\* pd.to_datetime(ts, unit="ms"): the UTC reading of the instant, kept as
\* the milliseconds its wall clock shows since 1970-01-01 00:00
ToDatetime(ts) == ts

\* datetime.fromtimestamp(ts / 1000): the reading of the instant on the
\* local clock of the process, zone hours ahead of UTC
FromTimestamp(ts, zone) == ts + zone * MsPerHour

\* the time_data columns of one timestamp (calendar of January 1970, whose
\* first day is a Thursday in ISO week 1)
TimeData(ts) ==
    LET t == ToDatetime(ts)
        days == t \div MsPerDay
    IN <<t, (t \div MsPerHour) % 24, days + 1, ((days + 3) \div 7) + 1, 1, 1970,
         ((days + 3) % 7) + 1>>

\* the page filter left out: every line of the document is kept
NextSongRowsAll(doc) == doc

\* df[df["page"] == "NextSong"]
NextSongRows(doc) == SelectSeq(doc, LAMBDA r : r.page = "NextSong")

\* the (song, artist, length) a row is looked up by
LookupArgs(row) == <<row.song, row.artist, row.length>>

\* what fetchone may return for each row of df, the lookups made on db
Fetches(db, doc) ==
    LET df == NextSongRows(doc)
        rows == UNION {FetchOne(db, LookupArgs(df[k])) : k \in 1..Len(df)}
    IN {f \in [1..Len(df) -> rows] :
            \A k \in 1..Len(df) : f[k] \in FetchOne(db, LookupArgs(df[k]))}

\* the fetched pair unpacked the wrong way round
ResolveSwapped(results) ==
    IF results = <<>> THEN <<None, None>> ELSE <<results[2], results[1]>>

\* songid, artistid = results if results else (None, None)
Resolve(results) == IF results = <<>> THEN <<None, None>> ELSE results

\* the songplay written only when the lookup found a row
SongplayCallsMatchedOnly(row, results, zone) ==
    IF results = <<>> THEN << Call("song_select", LookupArgs(row)) >>
    ELSE << Call("song_select", LookupArgs(row)),
            Call("songplay_table_insert",
                 <<FromTimestamp(row.ts, zone), row.userId, row.level,
                   Resolve(results)[1], Resolve(results)[2], row.sessionId,
                   row.location, row.userAgent>>) >>

\* the statements of one songplay: the lookup, then the insert
SongplayCalls(row, results, zone) ==
    << Call("song_select", LookupArgs(row)),
       Call("songplay_table_insert",
            <<FromTimestamp(row.ts, zone), row.userId, row.level,
              Resolve(results)[1], Resolve(results)[2], row.sessionId,
              row.location, row.userAgent>>) >>

\* process_log_file with one loop over the rows: time, user, lookup and
\* songplay of a row before the next row
process_log_file_RowWise(doc, fetched, zone) ==
    LET df == NextSongRows(doc)
    IN Concat([k \in 1..Len(df) |->
        << Call("time_table_insert", TimeData(df[k].ts)),
           Call("user_table_insert",
                <<df[k].userId, df[k].firstName, df[k].lastName,
                  df[k].gender, df[k].level>>) >>
        \o SongplayCalls(df[k], fetched[k], zone)])

\* process_log_file with the users upserted last row first
process_log_file_UsersReversed(doc, fetched, zone) ==
    LET df == NextSongRows(doc)
        M == Len(df)
    IN [k \in 1..M |-> Call("time_table_insert", TimeData(df[k].ts))]
       \o [k \in 1..M |-> Call("user_table_insert",
                <<df[M + 1 - k].userId, df[M + 1 - k].firstName,
                  df[M + 1 - k].lastName, df[M + 1 - k].gender,
                  df[M + 1 - k].level>>)]
       \o Concat([k \in 1..M |-> SongplayCalls(df[k], fetched[k], zone)])

\* process_log_file: the NextSong rows give the time inserts, then the user
\* upserts, then per row the lookup and the songplay insert.
process_log_file(doc, fetched, zone) ==
    LET df == NextSongRows(doc)
        M == Len(df)
    IN [k \in 1..M |-> Call("time_table_insert", TimeData(df[k].ts))]
       \o [k \in 1..M |-> Call("user_table_insert",
                <<df[k].userId, df[k].firstName, df[k].lastName,
                  df[k].gender, df[k].level>>)]
       \o Concat([k \in 1..M |-> SongplayCalls(df[k], fetched[k], zone)])

\* ------------------------------------------------------------------------
\* State
\* ------------------------------------------------------------------------
VARIABLES
    songTree,   \* the tree below data/song_data
    logTree,    \* the tree below data/log_data
    zone,       \* hours the local clock is ahead of UTC
    run,        \* "first" or "second" run of main over the same roots
    dataset,    \* folder_path of the process_data call under way
    pc,         \* "walk", "loop", "commit", "closed" or "aborted"
    all_files,  \* process_data's file list
    i,          \* files of all_files handed to func so far
    working,    \* the tables as the open transaction sees them
    committed,  \* the tables as committed
    trace,      \* this run's calls of func, executes and commits, in order
    first       \* the committed tables when the first run closed

vars == <<songTree, logTree, zone, run, dataset, pc, all_files, i, working,
          committed, trace, first>>

Tree == IF dataset = "data/song_data" THEN songTree ELSE logTree

Event(op, f, c) == [op |-> op, dataset |-> dataset, file |-> f, stmt |-> c.stmt,
                    args |-> c.args]
NoCall == Call("", <<>>)

\* the statements func issues for file f, given what fetchone returns
FuncCalls(f, fetched) ==
    IF dataset = "data/song_data" THEN process_song_file(Tree[f].doc)
    ELSE process_log_file(Tree[f].doc, fetched, zone)

FuncFetches(f) ==
    IF dataset = "data/song_data" THEN {<<>>}
    ELSE Fetches(working, Tree[f].doc)

\* main, lines 130-131: connected, nothing loaded in this run yet
Start(st, lt, z) ==
    /\ songTree = st
    /\ logTree = lt
    /\ zone = z
    /\ run = "first"
    /\ dataset = "data/song_data"
    /\ pc = "walk"
    /\ all_files = <<>>
    /\ i = 0
    /\ working = EmptyTables
    /\ committed = EmptyTables
    /\ trace = <<>>
    /\ first = EmptyTables

\* the lines of a sequence of documents, taken together
Lines(docs) == Len(Concat(docs))

\* the log documents below a root: at most MaxFiles files, MaxRecords lines
LogDatasets ==
    {ld \in SeqsUpTo(LogDocuments, MaxFiles) : Lines(ld) <= MaxRecords}

\* two roots of regular .json files
Init ==
    \E ld \in LogDatasets :
        \E sd \in SeqsUpTo(SongDocuments, MaxFiles), z \in TZOffsets :
            Start(FlatTree(sd), FlatTree(ld), z)

\* any tree below data/song_data, no data/log_data
InitDisc ==
    \E st \in Trees(<<SongA>>) : Start(st, <<>>, 0)

\* process_data, lines 106-114: the file list
Discover ==
    /\ pc = "walk"
    /\ all_files' = FilesFound(Tree)
    /\ i' = 0
    /\ pc' = "loop"
    /\ UNCHANGED <<songTree, logTree, zone, run, dataset, working, committed,
                   trace, first>>

\* process_data with the commit moved out of the loop, after the last file
CallFuncCommitLast ==
    /\ pc = "loop"
    /\ i < Len(all_files)
    /\ LET f == all_files[i + 1]
       IN /\ Readable(Tree, f)
          /\ \E fetched \in FuncFetches(f) :
                LET cs == FuncCalls(f, fetched)
                IN /\ working' = ExecuteAll(working, cs)
                   /\ trace' = trace \o <<Event("func", f, NoCall)>>
                                \o [k \in 1..Len(cs) |-> Event("execute", f, cs[k])]
    /\ i' = i + 1
    /\ pc' = IF i + 1 = Len(all_files) THEN "commit" ELSE "loop"
    /\ UNCHANGED <<songTree, logTree, zone, run, dataset, all_files, committed,
                   first>>

\* process_data, line 118: func(cur, datafile) runs to its end
CallFunc ==
    /\ pc = "loop"
    /\ i < Len(all_files)
    /\ LET f == all_files[i + 1]
       IN /\ Readable(Tree, f)
          /\ \E fetched \in FuncFetches(f) :
                LET cs == FuncCalls(f, fetched)
                IN /\ working' = ExecuteAll(working, cs)
                   /\ trace' = trace \o <<Event("func", f, NoCall)>>
                                \o [k \in 1..Len(cs) |-> Event("execute", f, cs[k])]
    /\ i' = i + 1
    /\ pc' = "commit"
    /\ UNCHANGED <<songTree, logTree, zone, run, dataset, all_files, committed,
                   first>>

\* process_data, line 119: conn.commit()
Commit ==
    /\ pc = "commit"
    /\ committed' = working
    /\ trace' = Append(trace, Event("commit", all_files[i], NoCall))
    /\ pc' = "loop"
    /\ UNCHANGED <<songTree, logTree, zone, run, dataset, all_files, i, working,
                   first>>

\* the exception met by a commit of what the file wrote so far, as under
\* autocommit or a commit in a finally clause
RaiseCommits ==
    /\ pc = "loop"
    /\ i < Len(all_files)
    /\ LET f == all_files[i + 1]
       IN IF Readable(Tree, f)
          THEN \E fetched \in FuncFetches(f) :
                LET cs == FuncCalls(f, fetched)
                IN \E n \in 0..Len(cs) :
                    /\ working' = ExecuteAll(working, SubSeq(cs, 1, n))
                    /\ trace' = trace \o <<Event("func", f, NoCall)>>
                                 \o [k \in 1..n |-> Event("execute", f, cs[k])]
          ELSE /\ working' = working
               /\ trace' = Append(trace, Event("func", f, NoCall))
    /\ committed' = working'
    /\ i' = i + 1
    /\ pc' = "aborted"
    /\ UNCHANGED <<songTree, logTree, zone, run, dataset, all_files, first>>

\* An exception leaves func or commit: the file cannot be read, or the
\* store rejects a statement or the commit after n statements of the file
\* went through.  Nothing catches it: main ends, the connection drops and
\* the open transaction with it.
Raise ==
    /\ pc = "loop"
    /\ i < Len(all_files)
    /\ LET f == all_files[i + 1]
       IN IF Readable(Tree, f)
          THEN \E fetched \in FuncFetches(f) :
                LET cs == FuncCalls(f, fetched)
                IN \E n \in 0..Len(cs) :
                    /\ working' = ExecuteAll(working, SubSeq(cs, 1, n))
                    /\ trace' = trace \o <<Event("func", f, NoCall)>>
                                 \o [k \in 1..n |-> Event("execute", f, cs[k])]
          ELSE /\ working' = working
               /\ trace' = Append(trace, Event("func", f, NoCall))
    /\ i' = i + 1
    /\ pc' = "aborted"
    /\ UNCHANGED <<songTree, logTree, zone, run, dataset, all_files, committed,
                   first>>

\* main, line 134: the song dataset is done, the log dataset starts
NextDataset ==
    /\ pc = "loop"
    /\ i = Len(all_files)
    /\ dataset = "data/song_data"
    /\ dataset' = "data/log_data"
    /\ pc' = "walk"
    /\ UNCHANGED <<songTree, logTree, zone, run, all_files, i, working,
                   committed, trace, first>>

\* main, line 136: conn.close()
Close ==
    /\ pc = "loop"
    /\ i = Len(all_files)
    /\ dataset = "data/log_data"
    /\ pc' = "closed"
    /\ UNCHANGED <<songTree, logTree, zone, run, dataset, all_files, i, working,
                   committed, trace, first>>

\* main is started once more over the same roots and the same store
Rerun ==
    /\ pc = "closed"
    /\ run = "first"
    /\ run' = "second"
    /\ first' = committed
    /\ dataset' = "data/song_data"
    /\ pc' = "walk"
    /\ all_files' = <<>>
    /\ i' = 0
    /\ working' = committed
    /\ trace' = <<>>
    /\ UNCHANGED <<songTree, logTree, zone, committed>>

\* one run of main, to its end or to the exception that ends it
Next ==
    \/ Discover
    \/ CallFunc
    \/ Commit
    \/ Raise
    \/ NextDataset
    \/ Close

Spec == Init /\ [][Next]_vars

SpecDisc == InitDisc /\ [][Next]_vars

\* two runs of main, each to its end
NextTwice ==
    \/ Discover
    \/ CallFunc
    \/ Commit
    \/ NextDataset
    \/ Close
    \/ Rerun

SpecTwice == Init /\ [][NextTwice]_vars

\* ------------------------------------------------------------------------
\* Reading the trace
\* ------------------------------------------------------------------------
\* the song plays among the lines of a document
PlayEvents(doc) == SelectSeq(doc, LAMBDA r : r.page = "NextSong")

\* the events of this run that belong to the process_data call under way
Here == SelectSeq(trace, LAMBDA e : e.dataset = dataset)

\* its calls of func and its commits, each with its file
LoaderOps ==
    LET ops == SelectSeq(Here, LAMBDA e : e.op # "execute")
    IN [k \in 1..Len(ops) |-> <<ops[k].op, ops[k].file>>]

\* func and commit, in turn, for the first n files of the list
Turns(n) ==
    Concat([k \in 1..n |-> << <<"func", all_files[k]>>, <<"commit", all_files[k]>> >>])

\* where the last event of kind op stands in the trace, 0 if there is none
LastAt(op) ==
    IF \E p \in 1..Len(trace) : trace[p].op = op
    THEN CHOOSE p \in 1..Len(trace) :
            trace[p].op = op /\ \A q \in (p + 1)..Len(trace) : trace[q].op # op
    ELSE 0

\* the statements executed since func was last called
LastSegment == SubSeq(trace, LastAt("func") + 1, Len(trace))

Of(seg, stmt) == SelectSeq(seg, LAMBDA e : e.stmt = stmt)

\* the tables this run started from
Base == IF run = "first" THEN EmptyTables ELSE first

\* the tables made by the statements that a commit of this run followed
CommittedByTrace ==
    ExecuteAll(Base, SelectSeq(SubSeq(trace, 1, LastAt("commit")),
                               LAMBDA e : e.op = "execute"))

\* ------------------------------------------------------------------------
\* C1
\* ------------------------------------------------------------------------
\* C1: while no extractor fails, the events of a process_data call are
\* func(f1), commit, func(f2), commit, ... in the order of the file list,
\* one call and one commit per file, and every statement is executed
\* between the call of func for its file and the commit that follows it.
C1_FuncThenCommitPerFile ==
    pc \in {"loop", "commit", "closed"} =>
        /\ LoaderOps = IF pc = "commit"
                       THEN SubSeq(Turns(i), 1, 2 * i - 1)
                       ELSE Turns(i)
        /\ \A p \in 1..Len(Here) :
            Here[p].op = "execute" =>
                /\ p > 1
                /\ Here[p - 1].op \in {"func", "execute"}
                /\ Here[p - 1].file = Here[p].file

\* both files of a log dataset handled, the second after the first
C1_Witness ==
    /\ pc = "loop"
    /\ dataset = "data/log_data"
    /\ Len(all_files) = 2
    /\ i = 2
    /\ \E p \in 1..Len(Here) : Here[p].op = "execute" /\ Here[p].file = all_files[2]

\* ------------------------------------------------------------------------
\* C2
\* ------------------------------------------------------------------------
\* C2: when func or a statement or the commit fails for file fk, the load
\* stops there: the committed tables stay what the commits of f1..f(k-1)
\* made them, fk is called but never committed, nothing is called for a
\* later file or for the log dataset, and no step follows the failure.
C2_FailureStopsTheLoad ==
    pc = "aborted" =>
        /\ committed = CommittedByTrace
        /\ LoaderOps = Turns(i - 1) \o << <<"func", all_files[i]>> >>
        /\ dataset = "data/song_data" =>
            \A p \in 1..Len(trace) : trace[p].dataset # "data/log_data"
        /\ ~ENABLED Next

\* the second file fails after it wrote something; the first is committed
C2_Witness ==
    /\ pc = "aborted"
    /\ i = 2
    /\ working # committed
    /\ committed # Base
    /\ trace[Len(trace)].op = "execute"

\* ------------------------------------------------------------------------
\* C3
\* ------------------------------------------------------------------------
\* C3: for a log file of N lines, M of them song plays, process_log_file
\* issues M time inserts, M user upserts, M lookups and M songplay inserts,
\* the k-th of each made from the k-th song play, and nothing else; with
\* M = 0 it issues nothing and returns.
C3_FourStatementsPerPlay ==
    (pc = "commit" /\ dataset = "data/log_data") =>
        LET df == PlayEvents(logTree[all_files[i]].doc)
            M == Len(df)
            seg == LastSegment
            times == Of(seg, "time_table_insert")
            users == Of(seg, "user_table_insert")
            selects == Of(seg, "song_select")
            plays == Of(seg, "songplay_table_insert")
        IN /\ Len(seg) = 4 * M
           /\ Len(times) = M
           /\ Len(users) = M
           /\ Len(selects) = M
           /\ Len(plays) = M
           /\ \A k \in 1..M :
                /\ times[k].args[1] = df[k].ts
                /\ users[k].args = <<df[k].userId, df[k].firstName,
                                     df[k].lastName, df[k].gender, df[k].level>>
                /\ selects[k].args = <<df[k].song, df[k].artist, df[k].length>>
                /\ plays[k].args[2] = df[k].userId
                /\ plays[k].args[3] = df[k].level
                /\ plays[k].args[6] = df[k].sessionId

\* a file of two lines, one of them a song play, has been processed
C3_Witness ==
    /\ pc = "commit"
    /\ dataset = "data/log_data"
    /\ Len(logTree[all_files[i]].doc) = 2
    /\ Len(PlayEvents(logTree[all_files[i]].doc)) = 1
    /\ Len(LastSegment) = 4

\* ------------------------------------------------------------------------
\* C4
\* ------------------------------------------------------------------------
\* the song plays of the log file func was last called for, and the rows
\* they were given in songplays
C4_Resolved ==
    (pc = "commit" /\ dataset = "data/log_data") =>
        LET df == PlayEvents(logTree[all_files[i]].doc)
            M == Len(df)
            n == Len(working.songplays)
        IN /\ n >= M
           /\ \A k \in 1..M :
                LET row == working.songplays[n - M + k]
                    found == SongSelect(working, <<df[k].song, df[k].artist, df[k].length>>)
                IN /\ row.session_id = df[k].sessionId
                   /\ found # {} => <<row.song_id, row.artist_id>> \in found
                   /\ found = {} => (row.song_id = None /\ row.artist_id = None)

C4_NeverMixed ==
    \A k \in 1..Len(working.songplays) :
        (working.songplays[k].song_id = None) <=> (working.songplays[k].artist_id = None)

C4_RowsKept ==
    /\ Len(committed'.songplays) >= Len(committed.songplays)
    /\ \A k \in 1..Len(committed.songplays) :
        committed'.songplays[k] = committed.songplays[k]

\* C4: the songplay row of a song play carries the song_id and artist_id of
\* a song and artist whose title, name and duration equal the play's song,
\* artist and length if the tables hold such a pair at the lookup, and None
\* for both otherwise; never one None and the other not; and no later step
\* changes a row once it is committed.
C4_LookupDecidesBothIds ==
    [][C4_Resolved' /\ C4_NeverMixed' /\ C4_RowsKept]_vars

\* a committed row without ids whose song play now finds its song and
\* artist in the tables, beside a row with ids
C4_Witness ==
    /\ \E j \in 1..Len(logTree) : \E r \in {PlayEvents(logTree[j].doc)[k] :
                                        k \in 1..Len(PlayEvents(logTree[j].doc))} :
        /\ SongSelect(committed, <<r.song, r.artist, r.length>>) # {}
        /\ \E k \in 1..Len(committed.songplays) :
            /\ committed.songplays[k].session_id = r.sessionId
            /\ committed.songplays[k].song_id = None
    /\ \E k \in 1..Len(committed.songplays) : committed.songplays[k].song_id # None

\* ------------------------------------------------------------------------
\* C5
\* ------------------------------------------------------------------------
\* the song plays of every log file below data/log_data
PlayCount ==
    Len(Concat([j \in 1..Len(logTree) |-> PlayEvents(logTree[j].doc)]))

C6_DimensionsBeforeSongplays ==
    (dataset = "data/log_data" /\ pc \in {"commit", "aborted"}) =>
        \A q \in 1..Len(LastSegment) :
            LastSegment[q].stmt \in {"time_table_insert", "user_table_insert"} =>
                \A p \in 1..(q - 1) :
                    LastSegment[p].stmt \notin {"song_select", "songplay_table_insert"}

\* a log file with two song plays has been processed
C6_Witness ==
    /\ pc = "commit"
    /\ dataset = "data/log_data"
    /\ Len(Of(LastSegment, "songplay_table_insert")) = 2
    /\ Len(Of(LastSegment, "time_table_insert")) = 2

\* ------------------------------------------------------------------------
\* C7
\* ------------------------------------------------------------------------
\* C7: the start_time of the songplay row of a song play with timestamp T
\* is the UTC reading of T, the same value as the start_time of the time
\* row of that song play, whatever the zone of the process.
C7_StartTimeIsUTC ==
    (pc = "commit" /\ dataset = "data/log_data") =>
        LET df == PlayEvents(logTree[all_files[i]].doc)
            times == Of(LastSegment, "time_table_insert")
            plays == Of(LastSegment, "songplay_table_insert")
        IN \A k \in 1..Len(df) :
            /\ k <= Len(plays) /\ k <= Len(times)
            /\ plays[k].args[1] = df[k].ts
            /\ plays[k].args[1] = times[k].args[1]

\* ------------------------------------------------------------------------
\* C8
\* ------------------------------------------------------------------------
\* C8: the file list of process_data holds only regular files whose name
\* ends in .json, holds every such file of the tree, and holds none twice;
\* below an empty or missing root it is empty, and then func is not called,
\* nothing is committed and nothing fails.
C8_ListIsEveryJsonFile ==
    (dataset = "data/song_data" /\ pc \in {"loop", "commit", "aborted"}) =>
        /\ \A k \in 1..Len(all_files) :
            /\ songTree[all_files[k]].kind = "file"
            /\ EndsInJson(songTree[all_files[k]].name)
        /\ \A j \in 1..Len(songTree) :
            (songTree[j].kind = "file" /\ EndsInJson(songTree[j].name))
                => \E k \in 1..Len(all_files) : all_files[k] = j
        /\ \A k, m \in 1..Len(all_files) : k # m => all_files[k] # all_files[m]
        /\ songTree = <<>> => (all_files = <<>> /\ trace = <<>> /\ pc = "loop")

\* ------------------------------------------------------------------------
\* C9
\* ------------------------------------------------------------------------
\* the song plays of the log dataset in the order they are processed
PlaysInOrder ==
    Concat([k \in 1..Len(all_files) |-> PlayEvents(logTree[all_files[k]].doc)])

\* C9: when the load has ended, users holds one row for every userId of a
\* song play, and its level is the level of the last song play of that
\* userId in processing order.
C9_LastLevelWins ==
    pc = "closed" =>
        \A p \in 1..Len(PlaysInOrder) :
            LET u == PlaysInOrder[p].userId
                last == CHOOSE q \in 1..Len(PlaysInOrder) :
                            /\ PlaysInOrder[q].userId = u
                            /\ \A m \in (q + 1)..Len(PlaysInOrder) :
                                PlaysInOrder[m].userId # u
                rows == {r \in committed.users : r.user_id = u}
            IN /\ Cardinality(rows) = 1
               /\ \A r \in rows : r.level = PlaysInOrder[last].level

\* a user played twice in one file, first as paid and last as free
C9_Witness ==
    /\ pc = "closed"
    /\ run = "first"
    /\ Len(all_files) = 1
    /\ Len(PlaysInOrder) = 2
    /\ PlaysInOrder[1].userId = PlaysInOrder[2].userId
    /\ PlaysInOrder[1].level = "paid"
    /\ PlaysInOrder[2].level = "free"

\* ------------------------------------------------------------------------
\* C10
\* ------------------------------------------------------------------------
\* C10: whatever has been committed, and wherever the load stopped, every
\* committed song has its artist among the committed artists.
C10_CommittedSongHasArtist ==
    \A s \in committed.songs : \E a \in committed.artists : a.artist_id = s.artist_id

\* the load stopped between the song insert and the artist upsert of a
\* file: the open transaction holds a song whose artist it does not hold
C10_Witness ==
    /\ pc = "aborted"
    /\ dataset = "data/song_data"
    /\ \E s \in working.songs : \A a \in working.artists : a.artist_id # s.artist_id

====
